---- MODULE Spec2Model ----
(***************************************************************************)
(* caolzbot (bot.py): a chat relay with three provider clients             *)
(* (OpenAIClient, AnthropicClient, DeepseekClient), each keeping one       *)
(* conversation history per user, and the dispatcher MultiAIBot that       *)
(* parses the commands $list, $clear, $use and routes ordinary messages.   *)
(*                                                                         *)
(* A text is a sequence of whitespace-separated tokens.  A Python dict is  *)
(* a function whose DOMAIN is its key set.  A handler that awaits the HTTP *)
(* response is two steps: on_message_activity up to the await, and Resume  *)
(* from the await to the reply.                                            *)
(***************************************************************************)
EXTENDS Integers, Sequences, FiniteSets, Bags, TLC

\* ------------------------------------------------------------------ bounds

\* SpecRace: most calls suspended at the HTTP await at one time
MaxInFlight == 2
\* SpecRace admits an ordinary message while fewer Turns than this are stored
MaxRace == 3
\* Spec admits an ordinary message while fewer Turns than this are stored,
\* an emptied history counting as one Turn
MaxLoad == 2
\* SpecSeq admits an ordinary message while fewer than this are stored
MaxHist == 22
\* SpecSeq admits a failing call while fewer than this many user Turns among
\* the first HistoryCap stored Turns are followed by no assistant Turn
MaxFailed == 2

\* --------------------------------------------------------- program constants

\* the 20 of "len(history) > 20" and "history[-20:]"
HistoryCap == 20

\* the keys of ai_clients in the order __init__ inserts them
Providers == <<"openai", "anthropic", "deepseek">>

ProviderIds == {Providers[i] : i \in DOMAIN Providers}

\* Python's None
None == "None"

Users == {"u1", "u2"}

\* the one user of the sequential specification
SeqUser == "u1"

\* --------------------------------------------------------------- dict helpers

EmptyDict == [k \in {} |-> <<>>]

\* d[k] = v
SetItem(d, k, v) == [x \in (DOMAIN d) \cup {k} |-> IF x = k THEN v ELSE d[x]]

\* d.get(k, dflt)
Get(d, k, dflt) == IF k \in DOMAIN d THEN d[k] ELSE dflt

\* d.keys(), in insertion order
Keys(d) == SelectSeq(Providers, LAMBDA p : p \in DOMAIN d)

\* xs[-n:]
LastN(xs, n) == IF Len(xs) <= n THEN xs ELSE SubSeq(xs, Len(xs) - n + 1, Len(xs))

\* ------------------------------------------------------------------- texts

\* str.lower() on the tokens the inputs use
Lower(tok) ==
    CASE tok = "Hello" -> "hello"
      [] tok = "CAOLZBOT" -> "caolzbot"
      [] tok = "$USE" -> "$use"
      [] OTHER -> tok

\* str.replace("caolzbot", "") on one token
RemoveMention(tok) == IF tok = "caolzbot" THEN "" ELSE tok

RECURSIVE LStrip(_)
LStrip(toks) ==
    IF toks # <<>> /\ Head(toks) = "" THEN LStrip(Tail(toks)) ELSE toks

RECURSIVE RStrip(_)
RStrip(toks) ==
    IF toks # <<>> /\ toks[Len(toks)] = ""
    THEN RStrip(SubSeq(toks, 1, Len(toks) - 1))
    ELSE toks

\* str.strip(): an emptied token at either end leaves only whitespace there
Strip(toks) == RStrip(LStrip(toks))

\* text.lower().replace("caolzbot", "").strip()
NormalizeMessage(text) ==
    Strip([i \in DOMAIN text |-> RemoveMention(Lower(text[i]))])

\* prompt.replace("caolzbot", "").strip()
NormalizePrompt(prompt) ==
    Strip([i \in DOMAIN prompt |-> RemoveMention(prompt[i])])

\* str.split()
Split(message) == SelectSeq(message, LAMBDA t : t # "")

\* message.startswith("$")
StartsWithDollar(message) ==
    message # <<>> /\ Head(message) \in {"$list", "$clear", "$use", "$foo"}

\* the raw texts users send
RawTexts ==
    { <<"CAOLZBOT", "Hello">>,
      <<"$list">>, <<"$clear">>, <<"$use">>, <<"$use", "bogus">>,
      <<"$use", "openai">>, <<"$USE", "anthropic">>, <<"$use", "deepseek">> }

\* the raw texts of the sequential specification
SeqTexts ==
    { <<"CAOLZBOT", "Hello">>, <<"$list">>, <<"$clear">>, <<"$use", "bogus">> }

\* ------------------------------------------------------------------- turns

Turn(role, content) == [role |-> role, content |-> content]

SystemTurn == Turn("system", <<"You", "are", "a", "helpful", "assistant">>)

\* ------------------------------------------------------------------ replies

Reply(fmt, args) == [fmt |-> fmt, args |-> args]

\* no send_activity happened
NoReply == Reply("<nothing sent>", <<>>)
\* the handler is suspended at the HTTP await
Pending == Reply("<awaiting response>", <<>>)

ClearedText == Reply("history cleared", <<>>)
NothingToClearText == Reply("no history found", <<>>)
AuthFailedText == Reply("authentication failed, check the API key", <<>>)
NoServiceText == Reply("system error: no AI service configured", <<>>)
UnavailableText == Reply("selected AI service unavailable", <<>>)
ErrorText(status, body) == Reply("error: {status} - {body}", <<<<ToString(status)>>, body>>)
RequestExceptionText == Reply("request exception: {e}", <<>>)
FaultText == Reply("an error occurred: {e}", <<>>)
ContentText(content) == Reply("{content}", <<content>>)
SwitchedText(id) == Reply("switched to {id}", <<<<id>>>>)
AvailableText(ids) == Reply("available AI models: {ids}", <<ids>>)
ListText(ids, current) ==
    Reply("available AI models: {ids} / current AI: {current}", <<ids, <<current>>>>)

\* --------------------------------------------------------- HTTP responses

ReplyContents == { <<"pong">> }

\* status 0: no response, the request raised (connection error, timeout)
Response(status, wellformed, text) ==
    [status |-> status, wellformed |-> wellformed, text |-> text]

\* no HTTP exchange in this step
NoResponse == Response(-1, FALSE, <<>>)

Responses ==
    { Response(200, TRUE, r) : r \in ReplyContents }
    \cup { Response(200, FALSE, <<"garbage">>),
           Response(401, FALSE, <<"unauthorized">>),
           Response(500, FALSE, <<"oops">>),
           Response(0, FALSE, <<>>) }

\* ------------------------------------------------------------------- state

VARIABLES
    ai_clients,        \* id -> that client's conversation_histories (user -> Turns)
    default_ai,
    user_ai_choices,   \* user -> id
    calls,             \* the bag of generate_response calls suspended at the await
    turn_context       \* the last handler step: its activity, request and reply

vars == <<ai_clients, default_ai, user_ai_choices, calls, turn_context>>

\* a generate_response call suspended at "await response.text()": its arguments,
\* whether its local name history is still the list stored for the user, and
\* the length that list had when the call began
Call(user, ai, prompt, aliased, len_before) ==
    [user |-> user, ai |-> ai, prompt |-> prompt, aliased |-> aliased,
     len_before |-> len_before]

\* what the last step handled: kind is the command, "message" (an ordinary
\* message, up to its return or to the await) or "response" (the rest of it);
\* user the sender; ai the ai_choice resolved for the sender; message the
\* normalized text; messages the message list of the HTTP request made;
\* response the HTTP response received; len_before the length of the history
\* when generate_response began; sent the text given to send_activity
Context(kind, user, ai, message, messages, response, len_before, sent) ==
    [kind |-> kind, user |-> user, ai |-> ai, message |-> message,
     messages |-> messages, response |-> response, len_before |-> len_before,
     sent |-> sent]

\* a step that makes no HTTP request and receives no response
Handled(kind, user, ai, message, sent) ==
    Context(kind, user, ai, message, <<>>, NoResponse, 0, sent)

\* ----------------------------------------------------------------- AIClient

\* clear_history keeping a leading system Turn
clear_history_keeps_system(histories, user_id) ==
    IF user_id \in DOMAIN histories
    THEN [conversation_histories |->
              SetItem(histories, user_id,
                      SelectSeq(SubSeq(histories[user_id], 1, 1),
                                LAMBDA t : t.role = "system")),
          ret |-> ClearedText]
    ELSE [conversation_histories |-> histories, ret |-> NothingToClearText]

\* clear_history emptying the history of every user
clear_history_everyone(histories, user_id) ==
    IF user_id \in DOMAIN histories
    THEN [conversation_histories |-> [v \in DOMAIN histories |-> <<>>],
          ret |-> ClearedText]
    ELSE [conversation_histories |-> histories, ret |-> NothingToClearText]

\* AIClient.clear_history: the new conversation_histories and the return value
clear_history(histories, user_id) ==
    IF user_id \in DOMAIN histories
    THEN [conversation_histories |-> SetItem(histories, user_id, <<>>),
          ret |-> ClearedText]
    ELSE [conversation_histories |-> histories, ret |-> NothingToClearText]

\* _get_or_create_history storing a new list on every call
always_create_history(histories, user_id) == SetItem(histories, user_id, <<>>)

\* AIClient._get_or_create_history: the conversation_histories after the call
get_or_create_history(histories, user_id) ==
    IF user_id \notin DOMAIN histories
    THEN SetItem(histories, user_id, <<>>)
    ELSE histories

\* "if len(history) > 20: history = history[-20:]": the local name is rebound
\* to a copy, the stored list keeps every Turn
Truncate(history) ==
    IF Len(history) > HistoryCap
    THEN [history |-> LastN(history, HistoryCap), aliased |-> FALSE]
    ELSE [history |-> history, aliased |-> TRUE]

\* DeepseekClient truncating as the other clients do
TruncateLosesSystem(history) == Truncate(history)

\* DeepseekClient: the same, with the leading system Turn put back
TruncateKeepSystem(history) ==
    IF Len(history) > HistoryCap
    THEN LET keep == history[1].role = "system"
             cut == LastN(history, HistoryCap)
         IN [history |-> IF keep /\ cut[1].role # "system"
                         THEN <<history[1]>> \o cut
                         ELSE cut,
             aliased |-> FALSE]
    ELSE [history |-> history, aliased |-> TRUE]

\* the system Turn appended without the test for an empty history
SeedAlways(history) == Append(history, SystemTurn)

\* DeepseekClient: "if not history: history.append(system message)"
Seed(history) == IF history = <<>> THEN <<SystemTurn>> ELSE history

\* AnthropicClient: every role but user becomes assistant
AnthropicMessages(history) ==
    [i \in DOMAIN history |->
        Turn(IF history[i].role = "user" THEN "user" ELSE "assistant",
             history[i].content)]

\* generate_response up to the HTTP request: the stored histories, the request's
\* message list, and whether the local name history is still the stored list
generate_response_request(ai, histories, prompt, user_id) ==
    LET p == NormalizePrompt(prompt)
        h0 == get_or_create_history(histories, user_id)
        h1 == IF ai = "deepseek" THEN Seed(h0[user_id]) ELSE h0[user_id]
        h2 == Append(h1, Turn("user", p))
        t == IF ai = "deepseek" THEN TruncateKeepSystem(h2) ELSE Truncate(h2)
    IN [conversation_histories |-> SetItem(h0, user_id, h2),
        prompt |-> p,
        len_before |-> Len(Get(histories, user_id, <<>>)),
        aliased |-> t.aliased,
        messages |-> IF ai = "anthropic" THEN AnthropicMessages(t.history)
                     ELSE t.history]

\* generate_response recording the body of an error response as a Turn
generate_response_result_keeps_error(resp) ==
    IF resp.status = 0 THEN [append |-> <<>>, ret |-> RequestExceptionText]
    ELSE IF resp.status = 200 /\ ~resp.wellformed
    THEN [append |-> <<>>, ret |-> RequestExceptionText]
    ELSE [append |-> <<Turn("assistant", resp.text)>>,
          ret |-> IF resp.status = 401 THEN AuthFailedText
                  ELSE IF resp.status = 200 THEN ContentText(resp.text)
                  ELSE ErrorText(resp.status, resp.text)]

\* generate_response from the HTTP response on: the Turn appended to the local
\* history (or none) and the return value
generate_response_result(resp) ==
    IF resp.status = 0 THEN [append |-> <<>>, ret |-> RequestExceptionText]
    ELSE IF resp.status = 401 THEN [append |-> <<>>, ret |-> AuthFailedText]
    ELSE IF resp.status = 200
    THEN IF resp.wellformed
         THEN [append |-> <<Turn("assistant", resp.text)>>,
               ret |-> ContentText(resp.text)]
         ELSE [append |-> <<>>, ret |-> RequestExceptionText]
    ELSE [append |-> <<>>, ret |-> ErrorText(resp.status, resp.text)]

\* --------------------------------------------------------------- MultiAIBot

\* the default taken from the last key instead
DefaultAILastKey(clients) ==
    IF Keys(clients) # <<>> THEN Keys(clients)[Len(Keys(clients))] ELSE None

\* "openai" if registered, else the first key, else None
DefaultAI(clients) ==
    IF "openai" \in DOMAIN clients THEN "openai"
    ELSE IF Keys(clients) # <<>> THEN Head(Keys(clients))
    ELSE None

\* _get_user_ai_choice ignoring the user's choice
get_default_ai_choice(user_id) == default_ai

get_user_ai_choice(user_id) == Get(user_ai_choices, user_id, default_ai)

\* lines 301-304 without the send_activity
NoClientsSilent == NoReply

\* lines 301-304 sending the text of lines 306-309
NoClientsUnavailable == UnavailableText

\* lines 301-304: what an ordinary message gets while no client is registered
NoClientsReply == NoServiceText

\* clear_history rebinds the stored list: the suspended calls of that user on
\* that client keep the old list
Unalias(call, ai, user_id) ==
    IF call.ai = ai /\ call.user = user_id
    THEN [call EXCEPT !.aliased = FALSE]
    ELSE call

RECURSIVE Copies(_, _)
Copies(bag, cs) ==
    IF cs = {} THEN 0
    ELSE LET c == CHOOSE x \in cs : TRUE
         IN CopiesIn(c, bag) + Copies(bag, cs \ {c})

\* clear_history emptying the stored list in place: suspended calls keep it
DetachNone(bag, ai, user_id) == bag

Detach(bag, ai, user_id) ==
    LET old == BagToSet(bag)
        new == {Unalias(c, ai, user_id) : c \in old}
    IN [n \in new |-> Copies(bag, {c \in old : Unalias(c, ai, user_id) = n})]

ListCommand(user_id, message) ==
    /\ turn_context' = Handled("$list", user_id, get_user_ai_choice(user_id), message,
            ListText(Keys(ai_clients), get_user_ai_choice(user_id)))
    /\ UNCHANGED <<ai_clients, default_ai, user_ai_choices, calls>>

\* "$clear" clearing the caller's history in every client
ClearCommandAllClients(user_id, message) ==
    LET ai_choice == get_user_ai_choice(user_id)
    IN IF ai_choice \in DOMAIN ai_clients
       THEN /\ ai_clients' =
                  [q \in DOMAIN ai_clients |->
                      clear_history(ai_clients[q], user_id).conversation_histories]
            /\ calls' = calls
            /\ turn_context' =
                  Handled("$clear", user_id, ai_choice, message,
                          clear_history(ai_clients[ai_choice], user_id).ret)
            /\ UNCHANGED <<default_ai, user_ai_choices>>
       ELSE /\ turn_context' =
                  Handled("$clear", user_id, ai_choice, message, NoReply)
            /\ UNCHANGED <<ai_clients, default_ai, user_ai_choices, calls>>

\* "$clear" answering also when the resolved provider is not registered
ClearCommandRepliesAlways(user_id, message) ==
    LET ai_choice == get_user_ai_choice(user_id)
    IN IF ai_choice \in DOMAIN ai_clients
       THEN LET r == clear_history(ai_clients[ai_choice], user_id)
            IN /\ ai_clients' =
                     [ai_clients EXCEPT ![ai_choice] = r.conversation_histories]
               /\ calls' = calls
               /\ turn_context' =
                     Handled("$clear", user_id, ai_choice, message, r.ret)
               /\ UNCHANGED <<default_ai, user_ai_choices>>
       ELSE /\ turn_context' =
                  Handled("$clear", user_id, ai_choice, message, NothingToClearText)
            /\ UNCHANGED <<ai_clients, default_ai, user_ai_choices, calls>>

ClearCommand(user_id, message) ==
    LET ai_choice == get_user_ai_choice(user_id)
    IN IF ai_choice \in DOMAIN ai_clients
       THEN LET r == clear_history(ai_clients[ai_choice], user_id)
            IN /\ ai_clients' =
                     [ai_clients EXCEPT ![ai_choice] = r.conversation_histories]
               /\ calls' = IF user_id \in DOMAIN ai_clients[ai_choice]
                           THEN Detach(calls, ai_choice, user_id)
                           ELSE calls
               /\ turn_context' =
                     Handled("$clear", user_id, ai_choice, message, r.ret)
               /\ UNCHANGED <<default_ai, user_ai_choices>>
       ELSE /\ turn_context' =
                  Handled("$clear", user_id, ai_choice, message, NoReply)
            /\ UNCHANGED <<ai_clients, default_ai, user_ai_choices, calls>>

\* "$use" without the test that the id is registered
UseCommandUnchecked(user_id, message) ==
    LET ai_choice == get_user_ai_choice(user_id)
        parts == Split(message)
    IN IF Len(parts) > 1
       THEN /\ user_ai_choices' = SetItem(user_ai_choices, user_id, parts[2])
            /\ turn_context' = Handled("$use", user_id, ai_choice, message,
                                       SwitchedText(parts[2]))
            /\ UNCHANGED <<ai_clients, default_ai, calls>>
       ELSE /\ turn_context' = Handled("$use", user_id, ai_choice, message,
                                       AvailableText(Keys(ai_clients)))
            /\ UNCHANGED <<ai_clients, default_ai, user_ai_choices, calls>>

\* "$use" testing the id against the known providers, registered or not
UseCommandKnownProvider(user_id, message) ==
    LET ai_choice == get_user_ai_choice(user_id)
        parts == Split(message)
    IN IF Len(parts) > 1 /\ parts[2] \in ProviderIds
       THEN /\ user_ai_choices' = SetItem(user_ai_choices, user_id, parts[2])
            /\ turn_context' = Handled("$use", user_id, ai_choice, message,
                                       SwitchedText(parts[2]))
            /\ UNCHANGED <<ai_clients, default_ai, calls>>
       ELSE /\ turn_context' = Handled("$use", user_id, ai_choice, message,
                                       AvailableText(Keys(ai_clients)))
            /\ UNCHANGED <<ai_clients, default_ai, user_ai_choices, calls>>

UseCommand(user_id, message) ==
    LET ai_choice == get_user_ai_choice(user_id)
        parts == Split(message)
    IN IF Len(parts) > 1 /\ parts[2] \in DOMAIN ai_clients
       THEN /\ user_ai_choices' = SetItem(user_ai_choices, user_id, parts[2])
            /\ turn_context' = Handled("$use", user_id, ai_choice, message,
                                       SwitchedText(parts[2]))
            /\ UNCHANGED <<ai_clients, default_ai, calls>>
       ELSE /\ turn_context' = Handled("$use", user_id, ai_choice, message,
                                       AvailableText(Keys(ai_clients)))
            /\ UNCHANGED <<ai_clients, default_ai, user_ai_choices, calls>>

\* lines 299-316; fault: an exception leaves generate_response before the
\* request (raised outside its try block) and the dispatcher catches it
GenerateReply(user_id, message, fault) ==
    LET ai_choice == get_user_ai_choice(user_id)
    IN IF DOMAIN ai_clients = {}
       THEN /\ turn_context' = Handled("message", user_id, ai_choice, message,
                                       NoClientsReply)
            /\ UNCHANGED <<ai_clients, default_ai, user_ai_choices, calls>>
       ELSE IF ai_choice \notin DOMAIN ai_clients
       THEN /\ turn_context' = Handled("message", user_id, ai_choice, message,
                                       UnavailableText)
            /\ UNCHANGED <<ai_clients, default_ai, user_ai_choices, calls>>
       ELSE LET g == generate_response_request(
                         ai_choice, ai_clients[ai_choice], message, user_id)
            IN /\ ai_clients' =
                     [ai_clients EXCEPT ![ai_choice] = g.conversation_histories]
               /\ IF fault
                  THEN /\ calls' = calls
                       /\ turn_context' =
                             Context("message", user_id, ai_choice, message, <<>>,
                                     NoResponse, g.len_before, FaultText)
                  ELSE /\ calls' = calls (+) SetToBag(
                                      {Call(user_id, ai_choice, g.prompt, g.aliased,
                                            g.len_before)})
                       /\ turn_context' =
                             Context("message", user_id, ai_choice, message,
                                     g.messages, NoResponse, g.len_before, Pending)
               /\ UNCHANGED <<default_ai, user_ai_choices>>

\* on_message_activity taking every unknown "$" command for "$use"
on_message_activity_unknown_is_use(user_id, text, fault) ==
    LET message == NormalizeMessage(text)
    IN IF ~StartsWithDollar(message) THEN GenerateReply(user_id, message, fault)
       ELSE IF Head(Split(message)) = "$list" THEN ListCommand(user_id, message)
       ELSE IF Head(Split(message)) = "$clear" THEN ClearCommand(user_id, message)
       ELSE UseCommand(user_id, message)

\* MultiAIBot.on_message_activity, up to its return or to the HTTP await
on_message_activity(user_id, text, fault) ==
    LET message == NormalizeMessage(text)
        command == IF StartsWithDollar(message) THEN Head(Split(message)) ELSE None
    IN IF command = "$list" THEN ListCommand(user_id, message)
       ELSE IF command = "$clear" THEN ClearCommand(user_id, message)
       ELSE IF command = "$use" THEN UseCommand(user_id, message)
       ELSE GenerateReply(user_id, message, fault)

\* the rest of a suspended handler, storing the reply next to the user Turn of
\* its own call
ResumePaired(call, resp) ==
    LET r == generate_response_result(resp)
        h == ai_clients[call.ai][call.user]
        at == call.len_before
                 + (IF call.ai = "deepseek" /\ call.len_before = 0 THEN 2 ELSE 1)
    IN /\ BagIn(call, calls)
       /\ ai_clients' =
             IF call.aliased
             THEN [ai_clients EXCEPT ![call.ai][call.user] =
                      SubSeq(h, 1, at) \o r.append \o SubSeq(h, at + 1, Len(h))]
             ELSE ai_clients
       /\ calls' = calls (-) SetToBag({call})
       /\ turn_context' = Context("response", call.user, call.ai, call.prompt,
                                  <<>>, resp, call.len_before, r.ret)
       /\ UNCHANGED <<default_ai, user_ai_choices>>

\* the rest of a suspended handler: generate_response from the HTTP response to
\* its return, then send_activity(response)
Resume(call, resp) ==
    LET r == generate_response_result(resp)
    IN /\ BagIn(call, calls)
       /\ ai_clients' =
             IF call.aliased
             THEN [ai_clients EXCEPT ![call.ai][call.user] = @ \o r.append]
             ELSE ai_clients
       /\ calls' = calls (-) SetToBag({call})
       /\ turn_context' = Context("response", call.user, call.ai, call.prompt,
                                  <<>>, resp, call.len_before, r.ret)
       /\ UNCHANGED <<default_ai, user_ai_choices>>

\* ----------------------------------------------------------- specifications

\* MultiAIBot.__init__, for the credentials in keys
Construct(keys) ==
    /\ ai_clients = [p \in keys |-> EmptyDict]
    /\ default_ai = DefaultAI(ai_clients)
    /\ user_ai_choices = EmptyDict
    /\ calls = EmptyBag
    /\ turn_context = Handled("start", None, None, <<>>, NoReply)

Init == \E keys \in SUBSET ProviderIds : Construct(keys)

\* an emptied history weighs as one Turn, so that histories cannot pile up
Weight(history) == IF history = <<>> THEN 1 ELSE Len(history)

RECURSIVE SumLen(_, _)
SumLen(histories, users) ==
    IF users = {} THEN 0
    ELSE LET u == CHOOSE x \in users : TRUE
         IN Weight(histories[u]) + SumLen(histories, users \ {u})

RECURSIVE SumClients(_)
SumClients(ids) ==
    IF ids = {} THEN 0
    ELSE LET p == CHOOSE x \in ids : TRUE
         IN SumLen(ai_clients[p], DOMAIN ai_clients[p]) + SumClients(ids \ {p})

\* the Turns stored in all conversation histories, by Weight
TotalTurns == SumClients(DOMAIN ai_clients)

IsCommand(text) ==
    LET message == NormalizeMessage(text)
    IN StartsWithDollar(message) /\ Head(Split(message)) \in {"$list", "$clear", "$use"}

\* only generate_response can raise
Faults(text) == IF IsCommand(text) THEN {FALSE} ELSE BOOLEAN

Admit(text, bound) == IsCommand(text) \/ TotalTurns < bound

\* user has no handler suspended at the await
Quiet(u) == \A c \in BagToSet(calls) : c.user # u

\* two users, any credentials; the transport delivers one message at a time per
\* user
Next ==
    \/ \E u \in Users, text \in RawTexts : \E fault \in Faults(text) :
          /\ Quiet(u)
          /\ Admit(text, MaxLoad)
          /\ on_message_activity(u, text, fault)
    \/ \E call \in BagToSet(calls), resp \in Responses : Resume(call, resp)

Spec == Init /\ [][Next]_vars

\* one provider configured, one user, one message at a time
InitSeq == \E p \in ProviderIds : Construct({p})

\* the user Turns among the first HistoryCap Turns that another user Turn follows
FailedTurns(history) ==
    Cardinality({i \in 1 .. HistoryCap :
                    /\ i < Len(history)
                    /\ history[i].role = "user"
                    /\ history[i + 1].role = "user"})

SeqHistory ==
    LET ai == get_user_ai_choice(SeqUser)
    IN Get(ai_clients[ai], SeqUser, <<>>)

AdmitFailure == FailedTurns(SeqHistory) < MaxFailed

NextSeq ==
    \/ \E text \in SeqTexts : \E fault \in Faults(text) :
          /\ calls = EmptyBag
          /\ Admit(text, MaxHist)
          /\ fault => AdmitFailure
          /\ on_message_activity(SeqUser, text, fault)
    \/ \E call \in BagToSet(calls), resp \in Responses :
          /\ generate_response_result(resp).append = <<>> => AdmitFailure
          /\ Resume(call, resp)

SpecSeq == InitSeq /\ [][NextSeq]_vars

\* the responses of the racing specification: a second reply text, so that the
\* replies to two calls can be told apart
RaceResponses == Responses \cup { Response(200, TRUE, <<"ping">>) }

\* the raw texts of the racing specification
RaceTexts == { <<"CAOLZBOT", "Hello">>, <<"$clear">> }

\* one provider configured, one user whose messages are handled concurrently
NextRace ==
    \/ \E text \in RaceTexts : \E fault \in Faults(text) :
          /\ IsCommand(text) \/ BagCardinality(calls) < MaxInFlight
          /\ Admit(text, MaxRace)
          /\ on_message_activity(SeqUser, text, fault)
    \/ \E call \in BagToSet(calls), resp \in RaceResponses : Resume(call, resp)

SpecRace == InitSeq /\ [][NextRace]_vars

\* the raw texts of the specification of unknown commands
CmdTexts ==
    { <<"$foo">>, <<"CAOLZBOT", "$foo", "anthropic">>,
      <<"$use", "anthropic">>, <<"$clear">> }

\* two users, any credentials, texts that begin with "$"
NextCmd ==
    \/ \E u \in Users, text \in CmdTexts : \E fault \in Faults(text) :
          /\ Quiet(u)
          /\ Admit(text, MaxLoad)
          /\ on_message_activity(u, text, fault)
    \/ \E call \in BagToSet(calls), resp \in Responses : Resume(call, resp)

SpecCmd == Init /\ [][NextCmd]_vars

\* the responses of the two-user racing specification
PairResponses ==
    { Response(200, TRUE, <<"pong">>), Response(401, FALSE, <<"unauthorized">>) }

\* the raw texts of the two-user racing specification
PairTexts == RaceTexts \cup { <<"$use", "deepseek">> }

\* OPENAI_API_KEY and DEEPSEEK_API_KEY are set
InitPair == Construct({"openai", "deepseek"})

\* two users whose messages and commands are handled concurrently
NextPair ==
    \/ \E u \in Users, text \in PairTexts : \E fault \in Faults(text) :
          /\ IsCommand(text) \/ BagCardinality(calls) < MaxInFlight
          /\ Admit(text, MaxLoad)
          /\ on_message_activity(u, text, fault)
    \/ \E call \in BagToSet(calls), resp \in PairResponses : Resume(call, resp)

SpecPair == InitPair /\ [][NextPair]_vars

\* ------------------------------------------------------------------- claims

\* the Conversation stored by client ai for user u
Stored(ai, u) ==
    IF ai \in DOMAIN ai_clients THEN Get(ai_clients[ai], u, <<>>) ELSE <<>>

\* the texts generate_response returns for a call that got no reply
FailureTexts(resp) ==
    {AuthFailedText, RequestExceptionText, ErrorText(resp.status, resp.text)}

\* the last step ended a generate_response call whose response was resp
Returned == turn_context.kind = "response"

\* ... with HTTP 200 and a well-formed envelope
ReturnedOk ==
    /\ Returned
    /\ turn_context.response.status = 200
    /\ turn_context.response.wellformed

\* ... with HTTP 401, another status but 200, or an exception of the request
ReturnedFailure ==
    /\ Returned
    /\ turn_context.response.status # 200

\* the last step made the HTTP request of a generate_response call
Requested == turn_context.kind = "message" /\ turn_context.sent = Pending

\* C1: every stored Conversation of every provider and user holds at most 20
\* Turns.
C1_StoredAtMostCap ==
    \A ai \in DOMAIN ai_clients : \A u \in DOMAIN ai_clients[ai] :
        Len(ai_clients[ai][u]) <= HistoryCap

\* C2: a call that received HTTP 200 with a well-formed envelope returned the
\* reply text, and the stored Conversation ends with the user Turn of the
\* prompt followed by the assistant Turn of that reply, whatever its length was.
C2_OkReplyStored ==
    ReturnedOk =>
        LET h == Stored(turn_context.ai, turn_context.user)
        IN /\ turn_context.sent = ContentText(turn_context.response.text)
           /\ Len(h) >= 2
           /\ h[Len(h) - 1] = Turn("user", turn_context.message)
           /\ h[Len(h)] = Turn("assistant", turn_context.response.text)

\* C3: the message list of every HTTP request has at most 20 entries.
C3_RequestAtMostCap ==
    Requested => Len(turn_context.messages) <= HistoryCap

AddedBeforeRequest(ai, len_before) ==
    IF ai = "deepseek" /\ len_before = 0 THEN 2 ELSE 1

C10_SystemTurnOnlyFirst ==
    \A ai \in DOMAIN ai_clients : \A u \in DOMAIN ai_clients[ai] :
        \A i \in DOMAIN ai_clients[ai][u] :
            ai_clients[ai][u][i].role = "system" => i = 1 /\ ai = "deepseek"

\* a DeepseekClient Conversation longer than the cap with a failed call in it
C10_Witness ==
    /\ Len(Stored("deepseek", SeqUser)) > HistoryCap
    /\ Stored("deepseek", SeqUser)[1] = SystemTurn
    /\ FailedTurns(Stored("deepseek", SeqUser)) > 0

\* the step handled an ordinary message of user u by calling generate_response
Invoked(u) ==
    /\ turn_context'.kind = "message"
    /\ turn_context'.user = u
    /\ turn_context'.sent \in {Pending, FaultText}

\* the step handled "$use id" of user u with id registered
Switched(u) ==
    /\ turn_context'.kind = "$use"
    /\ turn_context'.user = u
    /\ Len(turn_context'.message) > 1
    /\ turn_context'.message[2] \in DOMAIN ai_clients

\* the step changed no Conversation but that of user u under client ai
OnlyTouches(ai, u) ==
    /\ DOMAIN ai_clients' = DOMAIN ai_clients
    /\ \A q \in DOMAIN ai_clients :
          /\ q # ai => ai_clients'[q] = ai_clients[q]
          /\ \A v \in Users \ {u} :
                /\ v \in DOMAIN ai_clients'[q] <=> v \in DOMAIN ai_clients[q]
                /\ v \in DOMAIN ai_clients[q] => ai_clients'[q][v] = ai_clients[q][v]

\* C5: a user's selection is set by that user's "$use id" with id registered,
\* to id, and changed by nothing else; every ordinary message of a user who has
\* a selection calls generate_response of the selected client and touches no
\* other client.
C5_SelectionRoutes ==
    [][\A u \in Users :
          /\ Switched(u) =>
                /\ u \in DOMAIN user_ai_choices'
                /\ user_ai_choices'[u] = turn_context'.message[2]
                /\ turn_context'.sent = SwitchedText(turn_context'.message[2])
          /\ ~Switched(u) =>
                /\ u \in DOMAIN user_ai_choices' <=> u \in DOMAIN user_ai_choices
                /\ u \in DOMAIN user_ai_choices =>
                      user_ai_choices'[u] = user_ai_choices[u]
          /\ Invoked(u) /\ u \in DOMAIN user_ai_choices =>
                /\ turn_context'.ai = user_ai_choices[u]
                /\ OnlyTouches(user_ai_choices[u], u)
                /\ Stored(user_ai_choices[u], u)' # Stored(user_ai_choices[u], u)
      ]_vars

\* user u1 chose anthropic, user u2 then chose deepseek, and a message of u1 is
\* at anthropic
C5_Witness ==
    /\ "openai" \in DOMAIN ai_clients
    /\ Get(user_ai_choices, "u1", None) = "anthropic"
    /\ Get(user_ai_choices, "u2", None) = "deepseek"
    /\ Requested
    /\ turn_context.user = "u1"
    /\ turn_context.ai = "anthropic"
    /\ Stored("anthropic", "u1") # <<>>

\* the step handled "$use" of some user with no id or an unregistered id
UseRefused ==
    /\ turn_context'.kind = "$use"
    /\ Len(turn_context'.message) > 1 => turn_context'.message[2] \notin DOMAIN ai_clients

\* C6: "$use" with no id or an unregistered id changes no selection, nor the
\* provider any user resolves to, and replies with the available providers.
C6_RefusedUseChangesNothing ==
    [][UseRefused =>
          /\ user_ai_choices' = user_ai_choices
          /\ \A u \in Users : get_user_ai_choice(u)' = get_user_ai_choice(u)
          /\ turn_context'.sent = AvailableText(Keys(ai_clients))
          /\ UNCHANGED <<ai_clients, default_ai, calls>>
      ]_vars

\* "$use bogus" of a user who had chosen deepseek while openai is the default
C6_Witness ==
    /\ turn_context.kind = "$use"
    /\ turn_context.message = <<"$use", "bogus">>
    /\ default_ai = "openai"
    /\ Get(user_ai_choices, turn_context.user, None) = "deepseek"
    /\ turn_context.ai = "deepseek"

\* the Conversation stored by client ai for user u after the step
StoredAfter(ai, u) ==
    IF ai \in DOMAIN ai_clients' THEN Get(ai_clients'[ai], u, <<>>) ELSE <<>>

\* the step handled an ordinary message of user u right after the step that
\* handled that user's "$use id", which took the user from another client to id
FirstAfterSwitch(u) ==
    /\ turn_context.kind = "$use"
    /\ turn_context.user = u
    /\ turn_context.sent = SwitchedText(get_user_ai_choice(u))
    /\ turn_context.ai # get_user_ai_choice(u)
    /\ turn_context'.kind = "message"
    /\ turn_context'.user = u
    /\ turn_context'.sent = Pending

IsText(sent) == sent \notin {NoReply, Pending}

\* the handler of the last step is suspended at the await
Suspended ==
    /\ turn_context.kind = "message"
    /\ turn_context.sent = Pending
    /\ \E call \in BagToSet(calls) : call.user = turn_context.user

\* C8 as claimed: every handler that ended gave a text to send_activity.
C8_AlwaysReplies ==
    turn_context.kind # "start" => IsText(turn_context.sent) \/ Suspended

\* C8 as amended: every handler that ended gave a text to send_activity, but
\* "$clear" of a user whose resolved provider is not registered, which happens
\* only while no client is registered and ends with nothing sent.
C8_RepliesUnlessSilentClear ==
    turn_context.kind # "start" =>
        /\ IsText(turn_context.sent) \/ Suspended \/ turn_context.sent = NoReply
        /\ turn_context.sent = NoReply <=>
              turn_context.kind = "$clear" /\ turn_context.ai \notin DOMAIN ai_clients
        /\ turn_context.sent = NoReply => DOMAIN ai_clients = {}
        /\ turn_context.kind = "response" => IsText(turn_context.sent)

\* an ordinary message while no client is registered got its reply
C8_Witness ==
    /\ turn_context.kind = "message"
    /\ DOMAIN ai_clients = {}
    /\ turn_context.sent = NoServiceText

\* C9: "$clear" of a user with no Conversation under the resolved client gets
\* the nothing-to-clear text and creates none; with one, emptied before or not,
\* it leaves the empty Conversation, no system Turn kept, and gets the
\* confirmation text.
C9_ClearHistory ==
    [][turn_context'.kind = "$clear" /\ turn_context'.ai \in DOMAIN ai_clients =>
          LET histories == ai_clients[turn_context'.ai]
              after == ai_clients'[turn_context'.ai]
              u == turn_context'.user
          IN IF u \in DOMAIN histories
             THEN /\ u \in DOMAIN after
                  /\ after[u] = <<>>
                  /\ turn_context'.sent = ClearedText
             ELSE /\ u \notin DOMAIN after
                  /\ turn_context'.sent = NothingToClearText
      ]_vars

\* a DeepseekClient Conversation was cleared
C9_Witness ==
    /\ turn_context.kind = "$clear"
    /\ turn_context.ai = "deepseek"
    /\ turn_context.sent = ClearedText
    /\ turn_context.user \in DOMAIN ai_clients["deepseek"]
    /\ ai_clients["deepseek"][turn_context.user] = <<>>

\* C11: "$clear" changes no Conversation but that of the caller under the
\* provider resolved for the caller: every selection, the default, the caller's
\* Conversations under the other providers and every Conversation of the other
\* users are as before.
C11_ClearFrame ==
    [][turn_context'.kind = "$clear" =>
          /\ user_ai_choices' = user_ai_choices
          /\ default_ai' = default_ai
          /\ turn_context'.ai = get_user_ai_choice(turn_context'.user)
          /\ OnlyTouches(turn_context'.ai, turn_context'.user)
      ]_vars

\* a user with a selection cleared a Conversation under a provider where the
\* other user has one
C11_Witness ==
    /\ turn_context.kind = "$clear"
    /\ turn_context.sent = ClearedText
    /\ turn_context.user \in DOMAIN user_ai_choices
    /\ Stored(turn_context.ai, turn_context.user) = <<>>
    /\ \E v \in Users \ {turn_context.user} : Stored(turn_context.ai, v) # <<>>

\* C12: while no client is registered, every ordinary message of every user
\* got the no-service text, no request was made, no call is suspended, and
\* there is no Conversation and no selection.
C12_EmptyRegistry ==
    DOMAIN ai_clients = {} =>
        /\ calls = EmptyBag
        /\ user_ai_choices = EmptyDict
        /\ default_ai = None
        /\ turn_context.kind # "response"
        /\ turn_context.kind = "message" =>
              /\ turn_context.sent = NoServiceText
              /\ turn_context.messages = <<>>

\* the second user's ordinary message while no client is registered
C12_Witness ==
    /\ DOMAIN ai_clients = {}
    /\ turn_context.kind = "message"
    /\ turn_context.user = "u2"
    /\ turn_context.message = <<"hello">>
    /\ turn_context.sent = NoServiceText
    /\ user_ai_choices = EmptyDict

\* the default provider the claim names for the registered ids
PriorityDefault(ids) ==
    IF "openai" \in ids THEN "openai"
    ELSE IF "anthropic" \in ids THEN "anthropic"
    ELSE IF "deepseek" \in ids THEN "deepseek"
    ELSE None

\* C13: for every set of configured credentials the default provider is openai
\* when registered, else anthropic, else deepseek, else none; and every handler
\* of a user with no selection resolved that user to this default.
C13_DefaultPriority ==
    /\ default_ai = PriorityDefault(DOMAIN ai_clients)
    /\ \A u \in Users \ DOMAIN user_ai_choices :
          /\ get_user_ai_choice(u) = PriorityDefault(DOMAIN ai_clients)
          /\ turn_context.user = u =>
                turn_context.ai = PriorityDefault(DOMAIN ai_clients)

\* anthropic and deepseek registered: a request of a user with no selection
\* went to anthropic
C13_Witness ==
    /\ DOMAIN ai_clients = {"anthropic", "deepseek"}
    /\ Requested
    /\ turn_context.user \notin DOMAIN user_ai_choices
    /\ turn_context.ai = "anthropic"
    /\ Stored("anthropic", turn_context.user) # <<>>

\* C14: "$clear" sends nothing exactly when the provider resolved for the
\* caller is not registered, and then changes no state; otherwise it sends what
\* clear_history of that provider returns for the caller: the confirmation text
\* if the caller had an entry there, the nothing-to-clear text if not.
C14_ClearReply ==
    [][turn_context'.kind = "$clear" =>
          LET ai == get_user_ai_choice(turn_context'.user)
          IN /\ turn_context'.sent = NoReply <=> ai \notin DOMAIN ai_clients
             /\ ai \notin DOMAIN ai_clients =>
                   UNCHANGED <<ai_clients, default_ai, user_ai_choices, calls>>
             /\ ai \in DOMAIN ai_clients =>
                   turn_context'.sent =
                       IF turn_context'.user \in DOMAIN ai_clients[ai]
                       THEN ClearedText
                       ELSE NothingToClearText
      ]_vars

\* "$clear" of the second user while no client is registered: nothing sent
C14_Witness ==
    /\ turn_context.kind = "$clear"
    /\ turn_context.user = "u2"
    /\ get_user_ai_choice("u2") \notin DOMAIN ai_clients
    /\ turn_context.sent = NoReply

\* the indices of the system Turns of a message list
SystemAt(messages) == {i \in DOMAIN messages : messages[i].role = "system"}

\* C15: every DeepseekClient request made for a stored Conversation that begins
\* with a system Turn carries that Turn at index 0 and no other system Turn,
\* also when the Conversation holds more than 20 Turns and is cut to its last
\* 20.
C15_SystemTurnSent ==
    Requested /\ turn_context.ai = "deepseek" =>
        LET h == Stored("deepseek", turn_context.user)
        IN h[1].role = "system" =>
              /\ turn_context.messages[1] = h[1]
              /\ SystemAt(turn_context.messages) = {1}

\* a DeepseekClient request for a Conversation of more than 20 Turns
C15_Witness ==
    /\ Requested
    /\ turn_context.ai = "deepseek"
    /\ Len(Stored("deepseek", turn_context.user)) > HistoryCap
    /\ Stored("deepseek", turn_context.user)[1] = SystemTurn
    /\ turn_context.messages[2] # Stored("deepseek", turn_context.user)[2]

\* the step handled a message of user u that begins with "$" and whose first
\* token is none of "$list", "$clear", "$use"
UnknownCommand(u) ==
    /\ turn_context'.user = u
    /\ turn_context'.kind # "response"
    /\ StartsWithDollar(turn_context'.message)
    /\ Head(Split(turn_context'.message)) \notin {"$list", "$clear", "$use"}

\* the step called generate_response of the provider resolved for user u, which
\* appended the message as a user Turn, and changed no selection
SentAsOrdinary(u) ==
    /\ turn_context'.kind = "message"
    /\ turn_context'.ai = get_user_ai_choice(u)
    /\ turn_context'.ai \in DOMAIN ai_clients
    /\ turn_context'.sent \in {Pending, FaultText}
    /\ turn_context'.sent = Pending =>
          /\ turn_context'.messages # <<>>
          /\ turn_context'.messages[Len(turn_context'.messages)]
                = Turn("user", turn_context'.message)
    /\ StoredAfter(turn_context'.ai, u)
          = (IF turn_context'.ai = "deepseek" /\ Stored(turn_context'.ai, u) = <<>>
             THEN <<SystemTurn>> ELSE Stored(turn_context'.ai, u))
            \o <<Turn("user", turn_context'.message)>>
    /\ user_ai_choices' = user_ai_choices

\* C16 as claimed: every message with an unknown "$" command is sent to the
\* provider resolved for the caller through generate_response, is appended to
\* the Conversation as a user Turn, and changes no selection.
C16_UnknownCommandSent ==
    [][\A u \in Users : UnknownCommand(u) => SentAsOrdinary(u)]_vars

\* C16 as amended: a message with an unknown "$" command is handled as every
\* ordinary message is: while a client is registered it is sent to the provider
\* resolved for the caller through generate_response and appended to the
\* Conversation as a user Turn; while none is registered it gets the no-service
\* text and changes nothing; in both cases no selection changes.
C16_UnknownCommandOrdinary ==
    [][\A u \in Users : UnknownCommand(u) =>
          IF DOMAIN ai_clients # {}
          THEN SentAsOrdinary(u)
          ELSE /\ turn_context'.kind = "message"
               /\ turn_context'.sent = NoServiceText
               /\ UNCHANGED <<ai_clients, default_ai, user_ai_choices, calls>>
      ]_vars

\* "$foo anthropic" of a user who resolves to openai, sent to openai while
\* anthropic is registered
C16_Witness ==
    /\ Requested
    /\ turn_context.message = <<"$foo", "anthropic">>
    /\ turn_context.ai = "openai"
    /\ "anthropic" \in DOMAIN ai_clients
    /\ get_user_ai_choice(turn_context.user) = "openai"
    /\ LastN(Stored("openai", turn_context.user), 1)
          = <<Turn("user", <<"$foo", "anthropic">>)>>

\* C17: Turns are stored in the order of the events, not grouped by call: a
\* call appends its user Turn when it starts (after the seeded system Turn on an
\* empty DeepseekClient Conversation), and the step that receives its response
\* appends the assistant Turn of a well-formed 200 reply at the end of what is
\* stored then, or leaves the stored Conversation as it is.  Hence, with two
\* calls of one user in flight at one provider, the two user Turns are stored
\* next to each other and the assistant Turns follow in the order the responses
\* arrive (the state of C17_Witness).
C17_TurnsInEventOrder ==
    [][LET u == turn_context'.user
           ai == turn_context'.ai
       IN /\ Invoked(u) =>
                StoredAfter(ai, u)
                  = (IF ai = "deepseek" /\ Stored(ai, u) = <<>>
                     THEN <<SystemTurn>> ELSE Stored(ai, u))
                    \o <<Turn("user", turn_context'.message)>>
          /\ turn_context'.kind = "response" =>
                IF turn_context'.response.status = 200
                      /\ turn_context'.response.wellformed
                THEN StoredAfter(ai, u) \in
                        { Stored(ai, u),
                          Stored(ai, u)
                            \o <<Turn("assistant", turn_context'.response.text)>> }
                ELSE StoredAfter(ai, u) = Stored(ai, u)
      ]_vars

\* two calls were in flight at once; the reply "ping" to the call sent second
\* arrived first, the reply "pong" to the call sent first arrived last
C17_Witness ==
    /\ calls = EmptyBag
    /\ turn_context.kind = "response"
    /\ turn_context.ai = "openai"
    /\ turn_context.len_before = 0
    /\ turn_context.response = Response(200, TRUE, <<"pong">>)
    /\ Stored("openai", SeqUser)
          = << Turn("user", <<"hello">>), Turn("user", <<"hello">>),
               Turn("assistant", <<"ping">>), Turn("assistant", <<"pong">>) >>

\* the unavailable-service text was not sent, every selection is a registered
\* provider and, while a client is registered, so are the default and the
\* provider resolved for every user
ResolvedIsRegistered ==
    /\ turn_context.sent # UnavailableText
    /\ \A u \in DOMAIN user_ai_choices : user_ai_choices[u] \in DOMAIN ai_clients
    /\ default_ai = DefaultAI(ai_clients)
    /\ DOMAIN ai_clients # {} =>
          /\ default_ai \in DOMAIN ai_clients
          /\ \A u \in Users : get_user_ai_choice(u) \in DOMAIN ai_clients
          /\ turn_context.kind # "start" => turn_context.ai \in DOMAIN ai_clients

\* C18: the unavailable-service text is never sent: in every state every
\* selection is a registered provider and, while a client is registered, so are
\* the default and the provider resolved for every user; and no step changes
\* the set of registered providers.
C18_ResolvedIsRegistered ==
    [][/\ ResolvedIsRegistered
       /\ ResolvedIsRegistered'
       /\ DOMAIN ai_clients' = DOMAIN ai_clients
       /\ default_ai' = default_ai
      ]_vars

\* deepseek is not registered: a user who was refused "$use deepseek" and has
\* chosen anthropic sends a message, which goes to anthropic
C18_Witness ==
    /\ DOMAIN ai_clients = {"openai", "anthropic"}
    /\ Requested
    /\ Get(user_ai_choices, turn_context.user, None) = "anthropic"
    /\ turn_context.ai = "anthropic"
    /\ default_ai = "openai"

\* what the program holds for user u: the selection, the Conversation under
\* every provider (none, or the one stored), and the calls of u that are
\* suspended, each with the list it will append its reply to
View(u) ==
    [ choice |-> IF u \in DOMAIN user_ai_choices THEN <<user_ai_choices[u]>> ELSE <<>>,
      stored |-> [ai \in DOMAIN ai_clients |->
                     IF u \in DOMAIN ai_clients[ai]
                     THEN <<ai_clients[ai][u]>> ELSE <<>>],
      inflight |-> [c \in {x \in BagToSet(calls) : x.user = u} |-> CopiesIn(c, calls)] ]

\* C19: under every interleaving of messages in flight and commands, a step of
\* one user (a message, a command, a response to that user's call) leaves what
\* the program holds for every other user as it was: the selection, the
\* Conversation under every provider, the suspended calls.  Every handler reads
\* only its own user's entries, the registry and the default, so a user's run
\* is the same with the other user's steps removed.
C19_UsersIsolated ==
    [][\A u \in Users : turn_context'.user # u => View(u)' = View(u)]_vars

\* the first user cleared the openai Conversation while a call of the second
\* user, who has since chosen deepseek, is suspended at openai
C19_Witness ==
    /\ turn_context.kind = "$clear"
    /\ turn_context.user = "u1"
    /\ turn_context.ai = "openai"
    /\ turn_context.sent = ClearedText
    /\ Get(user_ai_choices, "u2", None) = "deepseek"
    /\ Stored("openai", "u2") # <<>>
    /\ \E c \in BagToSet(calls) : c.user = "u2" /\ c.ai = "openai" /\ c.aliased

\* the Turns of a Conversation with the given role
WithRole(history, role) == {i \in DOMAIN history : history[i].role = role}

\* every stored Conversation has at most as many assistant Turns as user Turns:
\* none holds the reply to a call whose user Turn it does not hold
RepliesHaveTheirCall ==
    \A ai \in DOMAIN ai_clients : \A u \in DOMAIN ai_clients[ai] :
        Cardinality(WithRole(ai_clients[ai][u], "assistant"))
            <= Cardinality(WithRole(ai_clients[ai][u], "user"))

\* C20: "$clear" of a user with an entry under the resolved provider leaves the
\* Conversation empty also while calls of that user are suspended there; the
\* response to a call that arrives while the Conversation is empty (the call
\* began before the clear, for a call that begins leaves its user Turn) adds
\* nothing, whatever the response is; and when it arrives after the user's
\* next call began, its assistant Turn is not added either: no Conversation
\* holds more assistant Turns than user Turns.
C20_ClearedStaysEmpty ==
    [][LET u == turn_context'.user
           ai == turn_context'.ai
       IN /\ turn_context'.kind = "$clear" /\ ai \in DOMAIN ai_clients
                /\ u \in DOMAIN ai_clients[ai]
                => StoredAfter(ai, u) = <<>>
          /\ turn_context'.kind = "response" /\ Stored(ai, u) = <<>>
                => StoredAfter(ai, u) = <<>>
          /\ RepliesHaveTheirCall'
      ]_vars

\* the 200 response to a call arrived after "$clear": the reply was sent to the
\* user and the Conversation is empty
C20_Witness ==
    /\ ReturnedOk
    /\ turn_context.sent = ContentText(turn_context.response.text)
    /\ turn_context.ai = "deepseek"
    /\ turn_context.user \in DOMAIN ai_clients["deepseek"]
    /\ ai_clients["deepseek"][turn_context.user] = <<>>

====
